---- MODULE Spec2Model ----
(***************************************************************************)
(* The bulk dispatch of tg-sender: AppService.onModuleInit /               *)
(* sendTestMessage and MessagingService.sendBulkMessagesWithInterval,      *)
(* sendMessageWithLogging, analyzeError and sendLogMessage                 *)
(* (src/src/app.service.ts).                                               *)
(*                                                                         *)
(* Strings are sequences of tokens: one-character tokens (" ", ",", "\\",  *)
(* "n", the digits, "x", "a") and, in error texts, the marker substrings   *)
(* that analyzeError looks for, each as one token.                         *)
(***************************************************************************)
EXTENDS Integers, Sequences, FiniteSets, TLC

\* ------------------------------------------------------------------ bounds
\* The longest destination list the environment supplies.
MaxChats == 3
\* The number of rounds the model lets the endless loop start.
MaxRounds == 2

\* ----------------------------------------------------------------- strings
NL == "NL"
Whitespace == {" ", NL}
Digits == {"0", "1", "2", "3", "4", "5", "6", "7", "8", "9"}

DigitVal(d) ==
  CASE d = "0" -> 0 [] d = "1" -> 1 [] d = "2" -> 2 [] d = "3" -> 3
    [] d = "4" -> 4 [] d = "5" -> 5 [] d = "6" -> 6 [] d = "7" -> 7
    [] d = "8" -> 8 [] d = "9" -> 9

\* String.prototype.trim
RECURSIVE TrimLeft(_)
TrimLeft(s) ==
  IF s # <<>> /\ Head(s) \in Whitespace THEN TrimLeft(Tail(s)) ELSE s

RECURSIVE TrimRight(_)
TrimRight(s) ==
  IF s # <<>> /\ s[Len(s)] \in Whitespace
  THEN TrimRight(SubSeq(s, 1, Len(s) - 1))
  ELSE s

Trim(s) == TrimRight(TrimLeft(s))

\* String.prototype.split(','): the fields between the commas, at least one.
RECURSIVE SplitFrom(_, _, _)
SplitFrom(s, k, cur) ==
  IF k > Len(s) THEN <<cur>>
  ELSE IF s[k] = "," THEN <<cur>> \o SplitFrom(s, k + 1, <<>>)
  ELSE SplitFrom(s, k + 1, Append(cur, s[k]))

Split(s) == SplitFrom(s, 1, <<>>)

\* .replace(/\\n/g, '\n'): every backslash followed by n becomes a newline.
RECURSIVE ReplaceEscapedNewlines(_)
ReplaceEscapedNewlines(s) ==
  IF Len(s) >= 2 /\ s[1] = "\\" /\ s[2] = "n"
  THEN <<NL>> \o ReplaceEscapedNewlines(SubSeq(s, 3, Len(s)))
  ELSE IF s = <<>> THEN <<>>
  ELSE <<Head(s)>> \o ReplaceEscapedNewlines(Tail(s))

\* The value of a run of digits, read left to right.
RECURSIVE DigitsValue(_, _)
DigitsValue(s, acc) ==
  IF s # <<>> /\ Head(s) \in Digits
  THEN DigitsValue(Tail(s), 10 * acc + DigitVal(Head(s)))
  ELSE acc

\* A JavaScript number that may be NaN.
NaN == [nan |-> TRUE, n |-> 0]
Num(k) == [nan |-> FALSE, n |-> k]

\* parseInt(s): leading whitespace, an optional sign, then digits; NaN if
\* no digit follows.
parseInt(s) ==
  LET t == TrimLeft(s)
      neg == t # <<>> /\ Head(t) = "-"
      u == IF t # <<>> /\ Head(t) \in {"-", "+"} THEN Tail(t) ELSE t
  IN IF u # <<>> /\ Head(u) \in Digits
     THEN Num(IF neg THEN 0 - DigitsValue(u, 0) ELSE DigitsValue(u, 0))
     ELSE NaN

\* An environment variable: unset, or set to a string.
Unset == [set |-> FALSE, val |-> <<>>]
SetTo(s) == [set |-> TRUE, val |-> s]

\* !value || value.trim().length === 0
Blank(v) == ~v.set \/ v.val = <<>> \/ Trim(v.val) = <<>>

\* process.env.X || dflt
OrDefault(v, dflt) == IF v.set /\ v.val # <<>> THEN v.val ELSE dflt

\* -------------------------------------------------------- error classifier
\* String.prototype.includes for a marker, which is one token of the text.
Includes(text, marker) == \E k \in 1..Len(text) : text[k] = marker

\* FirstInteger with the pattern /(\d)/: the first digit alone.
RECURSIVE FirstDigit(_)
FirstDigit(text) ==
  IF text = <<>> THEN NaN
  ELSE IF Head(text) \in Digits THEN Num(DigitVal(Head(text)))
  ELSE FirstDigit(Tail(text))

\* errorMessage.match(/(\d+)/): the first run of digits, if any.
RECURSIVE FirstInteger(_)
FirstInteger(text) ==
  IF text = <<>> THEN NaN
  ELSE IF Head(text) \in Digits THEN Num(DigitsValue(text, 0))
  ELSE FirstInteger(Tail(text))

DefaultWaitTime == 300

\* error.message || error.toString(): an Error with an empty message prints
\* as "Error".
ErrorMessage(error) ==
  IF error.message # <<>> THEN error.message ELSE <<"Error">>

\* analyzeError with the test for a ban before the test for write access.
analyzeErrorBannedFirst(error) ==
  LET errorMessage == ErrorMessage(error)
      waitMatch == FirstInteger(errorMessage)
      waitTime == IF ~waitMatch.nan THEN waitMatch.n ELSE DefaultWaitTime
  IN
  IF Includes(errorMessage, "FLOOD_WAIT") \/ Includes(errorMessage, "Too Many Requests")
  THEN [description |-> "Flood control activated, need to wait",
        action |-> "Will pause bulk sending until flood control expires",
        waitTime |-> waitTime]
  ELSE IF Includes(errorMessage, "USER_BANNED_IN_CHANNEL") \/ Includes(errorMessage, "banned")
  THEN [description |-> "User is banned in this channel",
        action |-> "Skip this chat permanently",
        waitTime |-> 0]
  ELSE IF Includes(errorMessage, "CHAT_WRITE_FORBIDDEN") \/ Includes(errorMessage, "write access")
  THEN [description |-> "No permission to send messages to this chat",
        action |-> "Skip this chat and continue with others",
        waitTime |-> 0]
  ELSE IF Includes(errorMessage, "CHANNEL_PRIVATE") \/ Includes(errorMessage, "private")
  THEN [description |-> "Channel became private or was deleted",
        action |-> "Skip this chat permanently",
        waitTime |-> 0]
  ELSE IF Includes(errorMessage, "CHAT_ADMIN_REQUIRED") \/ Includes(errorMessage, "admin")
  THEN [description |-> "Admin rights required to send messages",
        action |-> "Skip this chat and continue with others",
        waitTime |-> 0]
  ELSE IF Includes(errorMessage, "PEER_ID_INVALID") \/ Includes(errorMessage, "Could not find")
  THEN [description |-> "Chat not found or not accessible",
        action |-> "Skip this chat permanently",
        waitTime |-> 0]
  ELSE [description |-> "Unknown error",
        action |-> "Skip this chat and continue with others",
        waitTime |-> 0]

analyzeError(error) ==
  LET errorMessage == ErrorMessage(error)
      waitMatch == FirstInteger(errorMessage)
      waitTime == IF ~waitMatch.nan THEN waitMatch.n ELSE DefaultWaitTime
  IN
  IF Includes(errorMessage, "FLOOD_WAIT") \/ Includes(errorMessage, "Too Many Requests")
  THEN [description |-> "Flood control activated, need to wait",
        action |-> "Will pause bulk sending until flood control expires",
        waitTime |-> waitTime]
  ELSE IF Includes(errorMessage, "CHAT_WRITE_FORBIDDEN") \/ Includes(errorMessage, "write access")
  THEN [description |-> "No permission to send messages to this chat",
        action |-> "Skip this chat and continue with others",
        waitTime |-> 0]
  ELSE IF Includes(errorMessage, "USER_BANNED_IN_CHANNEL") \/ Includes(errorMessage, "banned")
  THEN [description |-> "User is banned in this channel",
        action |-> "Skip this chat permanently",
        waitTime |-> 0]
  ELSE IF Includes(errorMessage, "CHANNEL_PRIVATE") \/ Includes(errorMessage, "private")
  THEN [description |-> "Channel became private or was deleted",
        action |-> "Skip this chat permanently",
        waitTime |-> 0]
  ELSE IF Includes(errorMessage, "CHAT_ADMIN_REQUIRED") \/ Includes(errorMessage, "admin")
  THEN [description |-> "Admin rights required to send messages",
        action |-> "Skip this chat and continue with others",
        waitTime |-> 0]
  ELSE IF Includes(errorMessage, "PEER_ID_INVALID") \/ Includes(errorMessage, "Could not find")
  THEN [description |-> "Chat not found or not accessible",
        action |-> "Skip this chat permanently",
        waitTime |-> 0]
  ELSE [description |-> "Unknown error",
        action |-> "Skip this chat and continue with others",
        waitTime |-> 0]

\* ------------------------------------------------------------ the transport
\* What the transport throws in the dispatch runs.
ErrorTexts ==
  { <<"FLOOD_WAIT", "_", "7">>,
    <<"Too Many Requests">>,
    <<"FLOOD_WAIT", "_", "0">>,
    <<"USER_BANNED_IN_CHANNEL">>,
    <<>> }

\* One delivery as the transport answers it: getEntity resolves or throws;
\* sendMessage throws, or resolves with a message, or with no message at all.
Deliveries ==
  [getEntity : {"throws"}, sendMessage : {"not called"}, err : ErrorTexts]
    \cup [getEntity : {"entity"}, sendMessage : {"throws"}, err : ErrorTexts]
    \cup [getEntity : {"entity"}, sendMessage : {"message", "undefined"}, err : {<<>>}]

\* The answers of a transport that also refuses for a lack of rights.
ObservedDeliveries ==
  Deliveries
    \cup [getEntity : {"throws"}, sendMessage : {"not called"},
          err : {<<"CHAT_WRITE_FORBIDDEN">>}]
    \cup [getEntity : {"entity"}, sendMessage : {"throws"},
          err : {<<"CHAT_WRITE_FORBIDDEN">>}]

\* The audit channel during one call: reachable, or failing at getEntity or
\* at sendMessage.
AuditAnswers == {"ok", "getEntity throws", "sendMessage throws"}

\* sentMessage.id on undefined
TypeErrorText == <<"Cannot read properties of undefined">>
\* what the transport throws for the audit channel
AuditErrorText == <<"Could not find", " ", "L">>

\* ------------------------------------------------------------ audit reporter
\* sendLogMessage without its try/catch.
sendLogMessageUncaught(audit) ==
  [raised |-> audit # "ok", delivered |-> audit = "ok", failed |-> audit # "ok"]

\* sendLogMessage: the text goes out if the audit channel answers; a failure
\* is caught and logged, and the call returns normally.
sendLogMessage(audit) ==
  [raised |-> FALSE, delivered |-> audit = "ok", failed |-> audit # "ok"]

\* ------------------------------------------------------------ delivery unit
\* DeliveryCatch rethrowing the error after its report.
DeliveryCatchRethrows(errorText, audit, earlier) ==
  [raised |-> TRUE, result |-> "none", reports |-> Append(earlier, "SEND FAILED"),
   auditFailed |-> sendLogMessage(audit).failed, sendCalled |-> FALSE]

\* DeliveryCatch writing to the local log only.
DeliveryCatchSilent(errorText, audit, earlier) ==
  [raised |-> FALSE,
   result |-> IF analyzeError([message |-> errorText]).waitTime > 0
              THEN "flood_wait" ELSE "false",
   reports |-> earlier, auditFailed |-> FALSE, sendCalled |-> FALSE]

\* The catch block of sendMessageWithLogging.
DeliveryCatch(errorText, audit, earlier) ==
  LET errorInfo == analyzeError([message |-> errorText])
      lg == sendLogMessage(audit)
      reports == Append(earlier, "SEND FAILED")
  IN IF lg.raised
     THEN [raised |-> TRUE, result |-> "none", reports |-> reports,
           auditFailed |-> TRUE, sendCalled |-> FALSE]
     ELSE [raised |-> FALSE,
           result |-> IF errorInfo.waitTime > 0 THEN "flood_wait" ELSE "false",
           reports |-> reports, auditFailed |-> lg.failed, sendCalled |-> FALSE]

\* sendMessageWithLogging sending to the chat id itself when getEntity fails.
sendMessageWithLoggingSendsAnyway(d, audit) ==
  IF d.getEntity = "throws" \/ d.sendMessage = "throws"
  THEN [DeliveryCatch(d.err, audit, <<>>) EXCEPT !.sendCalled = TRUE]
  ELSE IF d.sendMessage = "undefined"
  THEN [DeliveryCatch(TypeErrorText, audit, <<>>) EXCEPT !.sendCalled = TRUE]
  ELSE [raised |-> FALSE, result |-> "true", reports |-> <<"MESSAGE SENT">>,
        auditFailed |-> sendLogMessage(audit).failed, sendCalled |-> TRUE]

\* sendMessageWithLogging(chatId, text, logChatId) once the client is known
\* to be set: the value returned (true, 'flood_wait' or false, or an
\* exception raised), the audit reports issued, and whether the transport's
\* sendMessage was called.
sendMessageWithLogging(d, audit) ==
  IF d.getEntity = "throws"
  THEN DeliveryCatch(d.err, audit, <<>>)
  ELSE IF d.sendMessage = "throws"
  THEN [DeliveryCatch(d.err, audit, <<>>) EXCEPT !.sendCalled = TRUE]
  ELSE IF d.sendMessage = "undefined"
  THEN [DeliveryCatch(TypeErrorText, audit, <<>>) EXCEPT !.sendCalled = TRUE]
  ELSE LET lg == sendLogMessage(audit)
       IN IF lg.raised
          THEN [DeliveryCatch(AuditErrorText, audit, <<"MESSAGE SENT">>)
                  EXCEPT !.sendCalled = TRUE]
          ELSE [raised |-> FALSE, result |-> "true", reports |-> <<"MESSAGE SENT">>,
                auditFailed |-> lg.failed, sendCalled |-> TRUE]

\* The deliveries that differ in what they return or report, each with what
\* the same answer of the transport gives when the audit channel works.
DeliveryCases ==
  { [actual |-> sendMessageWithLogging(d, audit),
     ideal |-> sendMessageWithLogging(d, "ok")] :
      d \in Deliveries, audit \in AuditAnswers }

\* ------------------------------------------------------------------- state
VARIABLES
  pc,                   \* where the program stands
  client,               \* MessagingService.client is set
  errors,               \* the lines written with logger.error at startup
  chatIds,              \* the arguments of sendBulkMessagesWithInterval
  text,
  logChatId,
  intervalSeconds,
  roundNumber,          \* the locals of sendBulkMessagesWithInterval
  totalSuccessCount,
  totalFailCount,
  totalFloodWaitCount,
  roundSuccessCount,
  roundFailCount,
  roundFloodWaitCount,
  roundStopped,
  i,
  timer,                \* the pending setTimeout
  log,                  \* what happened since the last round began
  prevLog,              \* the end of the round before, from its last delivery on
  auditFailed,          \* the last step caught a failure of the audit channel
  calls,                \* how often sendMessageWithLogging has been called
  delivery,             \* the last call of sendMessageWithLogging
  error,                \* the argument of analyzeError when it runs by itself
  errorInfo,            \* and what it returned
  ideal                 \* the loop as it stands if every audit send succeeds

config == <<client, errors, chatIds, text, logChatId, intervalSeconds>>

loop == <<pc, roundNumber, totalSuccessCount, totalFailCount, totalFloodWaitCount,
          roundSuccessCount, roundFailCount, roundFloodWaitCount, roundStopped,
          i, timer, log, prevLog>>

vars == <<config, loop, auditFailed, calls, delivery, error, errorInfo, ideal>>

\* The loop's state as one value.
Ctl ==
  [pc |-> pc, roundNumber |-> roundNumber,
   totalSuccessCount |-> totalSuccessCount, totalFailCount |-> totalFailCount,
   totalFloodWaitCount |-> totalFloodWaitCount,
   roundSuccessCount |-> roundSuccessCount, roundFailCount |-> roundFailCount,
   roundFloodWaitCount |-> roundFloodWaitCount, roundStopped |-> roundStopped,
   i |-> i, timer |-> timer, log |-> log, prevLog |-> prevLog]

Assign(c) ==
  /\ pc' = c.pc
  /\ roundNumber' = c.roundNumber
  /\ totalSuccessCount' = c.totalSuccessCount
  /\ totalFailCount' = c.totalFailCount
  /\ totalFloodWaitCount' = c.totalFloodWaitCount
  /\ roundSuccessCount' = c.roundSuccessCount
  /\ roundFailCount' = c.roundFailCount
  /\ roundFloodWaitCount' = c.roundFloodWaitCount
  /\ roundStopped' = c.roundStopped
  /\ i' = c.i
  /\ timer' = c.timer
  /\ log' = c.log
  /\ prevLog' = c.prevLog

\* ------------------------------------------------------------------ events
NoTimer == [kind |-> "none", ms |-> Num(0)]

\* seconds * 1000, NaN staying NaN
Millis(seconds) == IF seconds.nan THEN NaN ELSE Num(seconds.n * 1000)

Event(kind) ==
  [ev |-> kind, what |-> "-", idx |-> 0, of |-> 0, round |-> 0,
   succ |-> 0, fail |-> 0, totals |-> <<0, 0, 0>>, ms |-> Num(0)]

\* a call of sendMessageWithLogging for chatIds[idx] and what it returned
AttemptEvent(idx, result) ==
  [Event("attempt") EXCEPT !.what = result, !.idx = idx]

\* a call of sendLogMessage
Report(kind) == [Event("report") EXCEPT !.what = kind]

RECURSIVE Reports(_)
Reports(kinds) ==
  IF kinds = <<>> THEN <<>> ELSE <<Report(Head(kinds))>> \o Reports(Tail(kinds))

\* RoundStartMessage numbering the round by the rounds that are over and
\* leaving the rate limits out of the totals.
RoundStartMessageRoundsOver(c, n) ==
  [Report("NEW ROUND STARTED") EXCEPT
     !.round = c.roundNumber - 1, !.of = n,
     !.totals = <<c.totalSuccessCount, c.totalFailCount, 0>>]

\* Round #${roundNumber}, Chats in round, Total stats
RoundStartMessage(c, n) ==
  [Report("NEW ROUND STARTED") EXCEPT
     !.round = c.roundNumber, !.of = n,
     !.totals = <<c.totalSuccessCount, c.totalFailCount, c.totalFloodWaitCount>>]

\* PauseMessage counting the attempt that was refused among the failures.
PauseMessageCountsRefused(c, n) ==
  [Report("ROUND PAUSED") EXCEPT
     !.round = c.roundNumber, !.idx = c.i + 1, !.of = n,
     !.succ = c.roundSuccessCount,
     !.fail = c.roundFailCount + c.roundFloodWaitCount]

\* Progress: ${i + 1}/${chatIds.length}, Success in this round, Failed in
\* this round
PauseMessage(c, n) ==
  [Report("ROUND PAUSED") EXCEPT
     !.round = c.roundNumber, !.idx = c.i + 1, !.of = n,
     !.succ = c.roundSuccessCount, !.fail = c.roundFailCount]

RoundCompleteMessage(c) ==
  [Report("ROUND COMPLETED") EXCEPT
     !.round = c.roundNumber,
     !.succ = c.roundSuccessCount, !.fail = c.roundFailCount,
     !.totals = <<c.totalSuccessCount, c.totalFailCount, c.totalFloodWaitCount>>]

\* The events from the last call of sendMessageWithLogging on.
FromLastAttempt(events) ==
  LET at == {k \in 1..Len(events) : events[k].ev = "attempt"}
  IN IF at = {} THEN events
     ELSE SubSeq(events, CHOOSE k \in at : \A m \in at : m <= k, Len(events))

\* a setTimeout that has fired
SleepEvent(t) == [Event("sleep") EXCEPT !.what = t.kind, !.ms = t.ms]

\* roundNumber++
IncrementEvent(r) == [Event("roundNumber++") EXCEPT !.round = r]

\* -------------------------------------------------------- the dispatch loop
\* An exception leaves sendBulkMessagesWithInterval and sendTestMessage and
\* is caught in onModuleInit.
Thrown(c) == [c EXCEPT !.pc = "caught"]

\* WhileCondition of a loop that stops after its first round.
WhileFirstRound(c) == c.roundNumber <= 1

\* while (true)
WhileCondition(c) == TRUE

\* The end of the while body: back to the top of the loop. Were the loop
\* left, sendTestMessage would disconnect the client and return.
LoopBack(c) ==
  [c EXCEPT !.pc = IF WhileCondition(c) THEN "roundStart" ELSE "disconnected",
            !.timer = NoTimer]

ExtraCooldownSeconds == 300

\* AfterRound counting only the rounds that ran to completion.
AfterRoundCompletedOnly(c) ==
  IF c.roundStopped THEN LoopBack(c)
  ELSE LoopBack([c EXCEPT !.roundNumber = c.roundNumber + 1,
                          !.log = Append(c.log, IncrementEvent(c.roundNumber + 1))])

\* AfterRound with the extra delay after every round that met a refusal.
AfterRoundCooldownAfterRefusal(c) ==
  LET d == [c EXCEPT !.roundNumber = c.roundNumber + 1,
                     !.log = Append(c.log, IncrementEvent(c.roundNumber + 1))]
  IN IF d.roundFloodWaitCount > 0
     THEN [d EXCEPT !.pc = "sleep",
                    !.timer = [kind |-> "extraCooldown",
                               ms |-> Num(ExtraCooldownSeconds * 1000)]]
     ELSE LoopBack(d)

\* roundNumber++ and the extra delay after it.
AfterRound(c) ==
  LET d == [c EXCEPT !.roundNumber = c.roundNumber + 1,
                     !.log = Append(c.log, IncrementEvent(c.roundNumber + 1))]
  IN IF d.roundFloodWaitCount > 0 /\ ~d.roundStopped
     THEN [d EXCEPT !.pc = "sleep",
                    !.timer = [kind |-> "extraCooldown",
                               ms |-> Num(ExtraCooldownSeconds * 1000)]]
     ELSE LoopBack(d)

\* RoundStartStep going on where a stopped round left off.
RoundStartStepResumes(c, n, audit) ==
  [c EXCEPT !.prevLog = FromLastAttempt(c.log),
            !.log = <<RoundStartMessage(c, n)>>,
            !.roundSuccessCount = 0, !.roundFailCount = 0,
            !.roundFloodWaitCount = 0, !.roundStopped = FALSE,
            !.i = IF c.roundStopped THEN c.i ELSE 0,
            !.pc = "attempt"]

\* RoundStartStep with the totals declared inside the while loop.
RoundStartStepResetsTotals(c, n, audit) ==
  [c EXCEPT !.prevLog = FromLastAttempt(c.log),
            !.log = <<RoundStartMessage(c, n)>>,
            !.totalSuccessCount = 0, !.totalFailCount = 0,
            !.totalFloodWaitCount = 0,
            !.roundSuccessCount = 0, !.roundFailCount = 0,
            !.roundFloodWaitCount = 0, !.roundStopped = FALSE,
            !.i = 0,
            !.pc = IF 0 < n THEN "attempt" ELSE "roundEnd"]

\* The top of the while body: the round's opening report and the reset of the
\* round's counters; then the for loop's first test.
RoundStartStep(c, n, audit) ==
  LET lg == sendLogMessage(audit)
      d == [c EXCEPT !.prevLog = FromLastAttempt(c.log),
                     !.log = <<RoundStartMessage(c, n)>>]
  IN IF lg.raised THEN Thrown(d)
     ELSE [d EXCEPT !.roundSuccessCount = 0, !.roundFailCount = 0,
                    !.roundFloodWaitCount = 0, !.roundStopped = FALSE,
                    !.i = 0,
                    !.pc = IF 0 < n THEN "attempt" ELSE "roundEnd"]

\* NextIndex with the test i <= chatIds.length.
NextIndexOffByOne(c, n) ==
  [c EXCEPT !.i = c.i + 1, !.timer = NoTimer,
            !.pc = IF c.i + 1 <= n THEN "attempt" ELSE "roundEnd"]

\* i++ and the for loop's test.
NextIndex(c, n) ==
  [c EXCEPT !.i = c.i + 1, !.timer = NoTimer,
            !.pc = IF c.i + 1 < n THEN "attempt" ELSE "roundEnd"]

\* AfterAttempt with the delay after the last sending of the round too.
AfterAttemptAlwaysDelays(c, n, seconds) ==
  [c EXCEPT !.pc = "sleep",
            !.timer = [kind |-> "interMessage", ms |-> Millis(seconds)]]

\* The delay between two sendings, not after the last of the round.
AfterAttempt(c, n, seconds) ==
  IF c.i < n - 1
  THEN [c EXCEPT !.pc = "sleep",
                 !.timer = [kind |-> "interMessage", ms |-> Millis(seconds)]]
  ELSE NextIndex(c, n)

\* AttemptStep counting a rate limit and going on with the round.
AttemptStepRateLimitGoesOn(c, n, seconds, cl, r, audit2) ==
  LET e == [c EXCEPT !.log = c.log \o <<AttemptEvent(c.i, r.result)>>
                                   \o Reports(r.reports)]
  IN IF ~cl THEN Thrown(c)
     ELSE IF r.raised THEN Thrown(e)
     ELSE IF r.result = "true"
     THEN AfterAttempt([e EXCEPT !.roundSuccessCount = e.roundSuccessCount + 1,
                                 !.totalSuccessCount = e.totalSuccessCount + 1],
                       n, seconds)
     ELSE IF r.result = "flood_wait"
     THEN AfterAttempt([e EXCEPT !.roundFloodWaitCount = e.roundFloodWaitCount + 1,
                                 !.totalFloodWaitCount = e.totalFloodWaitCount + 1],
                       n, seconds)
     ELSE AfterAttempt([e EXCEPT !.roundFailCount = e.roundFailCount + 1,
                                 !.totalFailCount = e.totalFailCount + 1],
                       n, seconds)

\* AttemptStep counting a refused delivery among the failures as well.
AttemptStepRefusalAlsoFails(c, n, seconds, cl, r, audit2) ==
  LET e == [c EXCEPT !.log = c.log \o <<AttemptEvent(c.i, r.result)>>
                                   \o Reports(r.reports)]
  IN IF ~cl THEN Thrown(c)
     ELSE IF r.raised THEN Thrown(e)
     ELSE IF r.result = "true"
     THEN AfterAttempt([e EXCEPT !.roundSuccessCount = e.roundSuccessCount + 1,
                                 !.totalSuccessCount = e.totalSuccessCount + 1],
                       n, seconds)
     ELSE IF r.result = "flood_wait"
     THEN LET f == [e EXCEPT !.roundFloodWaitCount = e.roundFloodWaitCount + 1,
                             !.totalFloodWaitCount = e.totalFloodWaitCount + 1,
                             !.roundFailCount = e.roundFailCount + 1,
                             !.totalFailCount = e.totalFailCount + 1,
                             !.roundStopped = TRUE]
              g == [f EXCEPT !.log = Append(f.log, PauseMessage(f, n))]
          IN IF sendLogMessage(audit2).raised THEN Thrown(g)
             ELSE [g EXCEPT !.pc = "roundEnd"]
     ELSE AfterAttempt([e EXCEPT !.roundFailCount = e.roundFailCount + 1,
                                 !.totalFailCount = e.totalFailCount + 1],
                       n, seconds)

\* One pass of the for body: the delivery r, refused if the client is not
\* set, and what the round does with its result.
AttemptStep(c, n, seconds, cl, r, audit2) ==
  LET e == [c EXCEPT !.log = c.log \o <<AttemptEvent(c.i, r.result)>>
                                   \o Reports(r.reports)]
  IN IF ~cl THEN Thrown(c)
     ELSE IF r.raised THEN Thrown(e)
     ELSE IF r.result = "true"
     THEN AfterAttempt([e EXCEPT !.roundSuccessCount = e.roundSuccessCount + 1,
                                 !.totalSuccessCount = e.totalSuccessCount + 1],
                       n, seconds)
     ELSE IF r.result = "flood_wait"
     THEN LET f == [e EXCEPT !.roundFloodWaitCount = e.roundFloodWaitCount + 1,
                             !.totalFloodWaitCount = e.totalFloodWaitCount + 1,
                             !.roundStopped = TRUE]
              g == [f EXCEPT !.log = Append(f.log, PauseMessage(f, n))]
          IN IF sendLogMessage(audit2).raised THEN Thrown(g)
             ELSE [g EXCEPT !.pc = "roundEnd"]
     ELSE AfterAttempt([e EXCEPT !.roundFailCount = e.roundFailCount + 1,
                                 !.totalFailCount = e.totalFailCount + 1],
                       n, seconds)

\* RoundEndStep without the test of roundStopped.
RoundEndStepAlwaysReports(c, seconds, audit) ==
  [c EXCEPT !.log = Append(c.log, RoundCompleteMessage(c)),
            !.pc = "sleep",
            !.timer = [kind |-> "interRound", ms |-> Millis(seconds)]]

\* RoundEndStep waiting the interval after a stopped round too.
RoundEndStepDelaysStopped(c, seconds, audit) ==
  LET d == IF c.roundStopped THEN c
           ELSE [c EXCEPT !.log = Append(c.log, RoundCompleteMessage(c))]
  IN [d EXCEPT !.pc = "sleep",
               !.timer = [kind |-> "interRound", ms |-> Millis(seconds)]]

\* After the for loop: the closing report and the delay before the next
\* round, unless the round was stopped.
RoundEndStep(c, seconds, audit) ==
  IF ~c.roundStopped
  THEN LET d == [c EXCEPT !.log = Append(c.log, RoundCompleteMessage(c))]
       IN IF sendLogMessage(audit).raised THEN Thrown(d)
          ELSE [d EXCEPT !.pc = "sleep",
                         !.timer = [kind |-> "interRound", ms |-> Millis(seconds)]]
  ELSE AfterRound(c)

\* A setTimeout fires and the code after its await runs.
TimerStep(c, n) ==
  LET d == [c EXCEPT !.log = Append(c.log, SleepEvent(c.timer))]
  IN CASE c.timer.kind = "interMessage" -> NextIndex(d, n)
       [] c.timer.kind = "interRound" -> AfterRound(d)
       [] OTHER -> LoopBack(d)

\* ----------------------------------------------------------------- startup
RequiredEnvVars ==
  <<"TELEGRAM_API_ID", "TELEGRAM_API_HASH", "BULK_MESSAGE_TEXT", "LOG_CHAT_ID",
    "TARGET_CHATS">>

\* requiredEnvVars.filter(...)
MissingVars(env) == SelectSeq(RequiredEnvVars, LAMBDA v : Blank(env[v]))

\* .map(chat => chat.trim()).filter(chat => chat.length > 0)
RECURSIVE TrimAndFilter(_)
TrimAndFilter(fields) ==
  IF fields = <<>> THEN <<>>
  ELSE LET chat == Trim(Head(fields))
       IN IF Len(chat) > 0 THEN <<chat>> \o TrimAndFilter(Tail(fields))
          ELSE TrimAndFilter(Tail(fields))

TargetChats(env) == TrimAndFilter(Split(OrDefault(env["TARGET_CHATS"], <<>>)))

MessageText(env) ==
  ReplaceEscapedNewlines(OrDefault(env["BULK_MESSAGE_TEXT"], <<"Default test message">>))

DefaultLogChatId == <<"-", "4", "8", "7", "2", "7", "3", "5", "7", "7", "7">>
DefaultInterval == <<"9", "0">>

IntervalSeconds(env) == parseInt(OrDefault(env["BULK_INTERVAL_SECONDS"], DefaultInterval))

\* NoTargetChats with the test dropped.
NoTargetChatsUnchecked(targetChats) == FALSE

\* targetChats.length === 0
NoTargetChats(targetChats) == Len(targetChats) = 0

\* !messageText || messageText.trim().length === 0
NoMessageText(messageText) == messageText = <<>> \/ Len(Trim(messageText)) = 0

\* sendTestMessage up to the call of sendBulkMessagesWithInterval, whose
\* locals start at 0, 0, 0 and round 1. initializeClient sets the client and
\* throws if the client does not start.
sendTestMessage(env, clientStarts) ==
  LET targetChats == TargetChats(env)
      messageText == MessageText(env)
      none == [pc |-> "returned", client |-> TRUE, errors |-> <<>>, chatIds |-> <<>>,
               text |-> <<>>, logChatId |-> <<>>, intervalSeconds |-> Num(0)]
  IN IF ~clientStarts
     THEN [none EXCEPT !.pc = "caught", !.errors = <<"Application error:">>]
     ELSE IF NoTargetChats(targetChats)
     THEN [none EXCEPT !.errors = <<"No target chats found in TARGET_CHATS env variable">>]
     ELSE IF NoMessageText(messageText)
     THEN [none EXCEPT !.errors = <<"No message text found in BULK_MESSAGE_TEXT env variable">>]
     ELSE [pc |-> "roundStart", client |-> TRUE, errors |-> <<>>,
           chatIds |-> targetChats, text |-> messageText,
           logChatId |-> OrDefault(env["LOG_CHAT_ID"], DefaultLogChatId),
           intervalSeconds |-> IntervalSeconds(env)]

\* onModuleInit: the check of the required variables, then sendTestMessage.
onModuleInit(env, clientStarts) ==
  LET missingVars == MissingVars(env)
  IN IF Len(missingVars) > 0
     THEN [pc |-> "returned", client |-> FALSE,
           errors |-> <<"Missing required environment variables:">> \o missingVars,
           chatIds |-> <<>>, text |-> <<>>, logChatId |-> <<>>,
           intervalSeconds |-> Num(0)]
     ELSE sendTestMessage(env, clientStarts)

\* ------------------------------------------------------- the environment
ChatNames == <<"a", "b", "c", "d", "e", "f">>

\* "a,b,c": n destinations separated by commas
RECURSIVE CommaList(_, _)
CommaList(k, n) ==
  IF k > n THEN <<>>
  ELSE IF k = n THEN <<ChatNames[k]>>
  ELSE <<ChatNames[k], ",">> \o CommaList(k + 1, n)

\* " a , ,b,": the same destinations with blanks and empty fields around them
RECURSIVE PaddedList(_, _)
PaddedList(k, n) ==
  IF k > n THEN <<>>
  ELSE <<" ", ChatNames[k], " ", ",", " ", ",">> \o PaddedList(k + 1, n)

TargetChatsValues ==
  {Unset, SetTo(<<>>), SetTo(<<" ">>), SetTo(<<",">>), SetTo(<<" ", ",", ",", " ">>)}
    \cup {SetTo(CommaList(1, n)) : n \in 1..MaxChats}
    \cup {SetTo(PaddedList(1, n)) : n \in 1..MaxChats}

MessageTextValues ==
  {Unset, SetTo(<<>>), SetTo(<<" ">>), SetTo(<<"\\", "n">>),
   SetTo(<<" ", "\\", "n", " ">>), SetTo(<<"x", "\\", "n", "x">>)}

LogChatIdValues == {Unset, SetTo(<<"L">>)}

IntervalValues == {Unset, SetTo(<<"0">>), SetTo(<<"x">>)}

\* The interval is varied for the lists of one and of two destinations only.
Varied(t, s) == s = Unset \/ t \in {SetTo(CommaList(1, 1)), SetTo(CommaList(1, 2))}

EnvOf(m, l, t, s) ==
  [v \in {"TELEGRAM_API_ID", "TELEGRAM_API_HASH", "BULK_MESSAGE_TEXT", "LOG_CHAT_ID",
          "TARGET_CHATS", "BULK_INTERVAL_SECONDS"} |->
     CASE v = "BULK_MESSAGE_TEXT" -> m
       [] v = "LOG_CHAT_ID" -> l
       [] v = "TARGET_CHATS" -> t
       [] v = "BULK_INTERVAL_SECONDS" -> s
       [] OTHER -> SetTo(<<"1">>)]

Envs ==
  { EnvOf(q[1], q[2], q[3], q[4]) :
      q \in { p \in MessageTextValues \X LogChatIdValues \X TargetChatsValues
                    \X IntervalValues : Varied(p[3], p[4]) } }

\* ----------------------------------------------------------------- actions
\* no error was analysed
NoError == [message |-> <<>>]
NoErrorInfo == [description |-> "-", action |-> "-", waitTime |-> 0]

\* no call of sendMessageWithLogging has been made
NoDelivery ==
  [round |-> 0, idx |-> 0, getEntity |-> "not called",
   sendMessage |-> "not called", result |-> "none",
   sendCalled |-> FALSE, caught |-> FALSE, errorInfo |-> NoErrorInfo]

\* What the catch block of sendMessageWithLogging gets when the transport
\* answers as d: the error thrown by getEntity or by sendMessage, or the
\* TypeError of sentMessage.id.
Caught(d) ==
  IF d.getEntity = "throws" \/ d.sendMessage = "throws"
  THEN [caught |-> TRUE, message |-> d.err]
  ELSE IF d.sendMessage = "undefined"
  THEN [caught |-> TRUE, message |-> TypeErrorText]
  ELSE [caught |-> FALSE, message |-> <<>>]

\* the call made in round number round for chatIds[idx], answered by the
\* transport as d, which ended as r
Delivery(round, idx, d, r) ==
  [round |-> round, idx |-> idx, getEntity |-> d.getEntity,
   sendMessage |-> d.sendMessage, result |-> r.result,
   sendCalled |-> r.sendCalled, caught |-> Caught(d).caught,
   errorInfo |-> IF Caught(d).caught THEN analyzeError(Caught(d)) ELSE NoErrorInfo]

\* The services as constructed, nothing having run.
Constructed ==
  /\ client = FALSE
  /\ errors = <<>>
  /\ chatIds = <<>>
  /\ text = <<>>
  /\ logChatId = <<>>
  /\ intervalSeconds = Num(0)
  /\ roundNumber = 1
  /\ totalSuccessCount = 0
  /\ totalFailCount = 0
  /\ totalFloodWaitCount = 0
  /\ roundSuccessCount = 0
  /\ roundFailCount = 0
  /\ roundFloodWaitCount = 0
  /\ roundStopped = FALSE
  /\ i = 0
  /\ timer = NoTimer
  /\ log = <<>>
  /\ prevLog = <<>>
  /\ auditFailed = FALSE
  /\ calls = 0
  /\ delivery = NoDelivery

Init ==
  /\ pc = "start"
  /\ Constructed
  /\ error = NoError
  /\ errorInfo = NoErrorInfo
  /\ ideal = Ctl

\* The loop moves to c; an exception that reached onModuleInit is logged.
Move(c) ==
  /\ Assign(c)
  /\ errors' = IF c.pc = "caught" THEN Append(errors, "Application error:") ELSE errors
  /\ UNCHANGED <<client, chatIds, text, logChatId, intervalSeconds, error, errorInfo>>

Startup ==
  /\ pc = "start"
  /\ \E env \in Envs, clientStarts \in BOOLEAN :
       LET r == onModuleInit(env, clientStarts)
       IN /\ pc' = r.pc
          /\ client' = r.client
          /\ errors' = r.errors
          /\ chatIds' = r.chatIds
          /\ text' = r.text
          /\ logChatId' = r.logChatId
          /\ intervalSeconds' = r.intervalSeconds
          /\ ideal' = [ideal EXCEPT !.pc = r.pc]
  /\ UNCHANGED <<roundNumber, totalSuccessCount, totalFailCount, totalFloodWaitCount,
                 roundSuccessCount, roundFailCount, roundFloodWaitCount, roundStopped,
                 i, timer, log, prevLog, auditFailed, calls, delivery, error,
                 errorInfo>>

RoundStart ==
  /\ pc = "roundStart"
  /\ roundNumber <= MaxRounds
  /\ \E audit \in AuditAnswers :
       /\ Move(RoundStartStep(Ctl, Len(chatIds), audit))
       /\ ideal' = RoundStartStep(ideal, Len(chatIds), "ok")
       /\ auditFailed' = sendLogMessage(audit).failed
       /\ UNCHANGED <<calls, delivery>>

\* One pass of the for body with the delivery r, which is rIdeal when the
\* audit channel works.
AttemptWith(r, rIdeal) ==
  LET n == Len(chatIds)
  IN \* the pause report is a second call of the audit channel
     \E audit2 \in IF r.result = "flood_wait" THEN AuditAnswers ELSE {"ok"} :
       /\ Move(AttemptStep(Ctl, n, intervalSeconds, client, r, audit2))
       /\ ideal' = AttemptStep(ideal, n, intervalSeconds, client, rIdeal, "ok")
       /\ auditFailed' = (r.auditFailed
                            \/ (r.result = "flood_wait" /\ sendLogMessage(audit2).failed))
       /\ calls' = calls + 1

Attempt ==
  /\ pc = "attempt"
  /\ \E d \in DeliveryCases : AttemptWith(d.actual, d.ideal)
  /\ UNCHANGED delivery

\* Attempt, with the call and what went on inside it kept in delivery.
AttemptObserved ==
  /\ pc = "attempt"
  /\ \E d \in ObservedDeliveries, audit \in AuditAnswers :
       LET r == sendMessageWithLogging(d, audit)
       IN /\ AttemptWith(r, sendMessageWithLogging(d, "ok"))
          /\ delivery' = IF client THEN Delivery(roundNumber, i, d, r) ELSE delivery

RoundEnd ==
  /\ pc = "roundEnd"
  /\ \E audit \in AuditAnswers :
       /\ Move(RoundEndStep(Ctl, intervalSeconds, audit))
       /\ ideal' = RoundEndStep(ideal, intervalSeconds, "ok")
       /\ auditFailed' = (~roundStopped /\ sendLogMessage(audit).failed)
       /\ UNCHANGED <<calls, delivery>>

TimerFires ==
  /\ pc = "sleep"
  /\ Move(TimerStep(Ctl, Len(chatIds)))
  /\ ideal' = TimerStep(ideal, Len(chatIds))
  /\ auditFailed' = FALSE
  /\ UNCHANGED <<calls, delivery>>

Next == Startup \/ RoundStart \/ Attempt \/ RoundEnd \/ TimerFires

Spec == Init /\ [][Next]_vars

\* The transport answers every call and every timer fires: the one thread
\* of control takes its next step whenever it has one.
FairSpec == Spec /\ WF_vars(Next)

\* The same program with every delivery kept in the history variable.
ObservedNext == Startup \/ RoundStart \/ AttemptObserved \/ RoundEnd \/ TimerFires

ObservedSpec == Init /\ [][ObservedNext]_vars

\* ------------------------------------------------- the classifier by itself
\* The substrings analyzeError looks for, test by test in the order of its
\* if statements: the error code and the phrase of each.
Markers ==
  << [code |-> "FLOOD_WAIT", phrase |-> "Too Many Requests"],
     [code |-> "CHAT_WRITE_FORBIDDEN", phrase |-> "write access"],
     [code |-> "USER_BANNED_IN_CHANNEL", phrase |-> "banned"],
     [code |-> "CHANNEL_PRIVATE", phrase |-> "private"],
     [code |-> "CHAT_ADMIN_REQUIRED", phrase |-> "admin"],
     [code |-> "PEER_ID_INVALID", phrase |-> "Could not find"] >>

\* the tests whose substrings occur in the text
Present(errorMessage) ==
  {k \in 1..Len(Markers) :
     Includes(errorMessage, Markers[k].code)
       \/ Includes(errorMessage, Markers[k].phrase)}

\* The descriptions analyzeError returns, in the order of Markers.
Descriptions ==
  << "Flood control activated, need to wait",
     "No permission to send messages to this chat",
     "User is banned in this channel",
     "Channel became private or was deleted",
     "Admin rights required to send messages",
     "Chat not found or not accessible" >>

\* The test that answered, by the description returned; 0 for 'Unknown error'.
KindOf(info) ==
  IF \E k \in 1..Len(Descriptions) : Descriptions[k] = info.description
  THEN CHOOSE k \in 1..Len(Descriptions) : Descriptions[k] = info.description
  ELSE 0

\* The class of a result, by the action it announces.
ClassOf(info) ==
  CASE info.action = "Will pause bulk sending until flood control expires" -> "RateLimited"
    [] info.action = "Skip this chat permanently" -> "PermanentSkip"
    [] info.action = "Skip this chat and continue with others"
         /\ info.description = "Unknown error" -> "Unknown"
    [] info.action = "Skip this chat and continue with others"
         /\ info.description # "Unknown error" -> "TransientSkip"
    [] OTHER -> "none"

Reverse(s) == [k \in 1..Len(s) |-> s[Len(s) + 1 - k]]

\* A text with the substrings of the tests in S, spelt as codes or as
\* phrases, one after the other from test k on.
RECURSIVE MarkerText(_, _, _)
MarkerText(S, spelling, k) ==
  IF k > Len(Markers) THEN <<>>
  ELSE (IF k \in S
        THEN <<IF spelling = "code" THEN Markers[k].code ELSE Markers[k].phrase>>
        ELSE <<>>)
       \o MarkerText(S, spelling, k + 1)

\* What stands before and after the substrings: nothing, or numbers.
Prefixes == {<<>>, <<"4", "2", ":", " ">>}
Suffixes == {<<>>, <<"_", "7">>, <<"_", "0">>, <<" ", "x">>}

\* The errors given to analyzeError: every set of tests met at once, in
\* either order and spelling, with and without numbers around them.
ErrorInputs ==
  { [message |-> pre \o (IF forward THEN MarkerText(S, spelling, 1)
                         ELSE Reverse(MarkerText(S, spelling, 1))) \o post] :
      S \in SUBSET (1..Len(Markers)), spelling \in {"code", "phrase"},
      forward \in BOOLEAN, pre \in Prefixes, post \in Suffixes }

ClassifierInit ==
  /\ pc = "analyzeError"
  /\ Constructed
  /\ error \in ErrorInputs
  /\ errorInfo = NoErrorInfo
  /\ ideal = Ctl

\* analyzeError(error)
Analyze ==
  /\ pc = "analyzeError"
  /\ errorInfo' = analyzeError(error)
  /\ pc' = "analyzed"
  /\ UNCHANGED <<config, roundNumber, totalSuccessCount, totalFailCount,
                 totalFloodWaitCount, roundSuccessCount, roundFailCount,
                 roundFloodWaitCount, roundStopped, i, timer, log, prevLog,
                 auditFailed, calls, delivery, error, ideal>>

\* analyzeError(error) once more
AnalyzeAgain ==
  /\ pc = "analyzed"
  /\ errorInfo' = analyzeError(error)
  /\ pc' = "analyzedAgain"
  /\ UNCHANGED <<config, roundNumber, totalSuccessCount, totalFailCount,
                 totalFloodWaitCount, roundSuccessCount, roundFailCount,
                 roundFloodWaitCount, roundStopped, i, timer, log, prevLog,
                 auditFailed, calls, delivery, error, ideal>>

ClassifierNext == Analyze \/ AnalyzeAgain

ClassifierSpec == ClassifierInit /\ [][ClassifierNext]_vars

\* ------------------------------------------------------- reading the logs
\* the calls of sendMessageWithLogging among the events
Attempts(events) == SelectSeq(events, LAMBDA e : e.ev = "attempt")

\* the reports of one kind among the events
ReportsOf(events, kind) ==
  SelectSeq(events, LAMBDA e : e.ev = "report" /\ e.what = kind)

\* the for loop of the round in log has been left
RoundOver ==
  \/ pc = "roundEnd"
  \/ pc = "sleep" /\ timer.kind # "interMessage"
  \/ pc = "roundStart" /\ log # <<>>

\* the positions of the rate-limited attempts
FloodPositions(attempts) ==
  {k \in 1..Len(attempts) : attempts[k].what = "flood_wait"}

\* ------------------------------------------------------------------ claims

\* C1: one round attempts the destinations 0..N-1 in order, each once, when
\* no attempt returns the rate-limited outcome, and the destinations 0..k
\* when the attempt at k is the first to return it; k+1..N-1 get no attempt.
C1_AttemptsPerRound ==
  LET a == Attempts(log)
      n == Len(chatIds)
      floods == FloodPositions(a)
  IN /\ \A k \in 1..Len(a) : a[k].idx = k - 1
     /\ Len(a) <= n
     /\ \A k \in floods : k = Len(a)
     /\ RoundOver =>
          /\ n >= 1
          /\ floods = {} => Len(a) = n
          /\ floods # {} => \E k \in 0..(n - 1) : floods = {k + 1} /\ Len(a) = k + 1

\* C1 witness: a round over three destinations stopped at the second.
C1_Witness ==
  /\ RoundOver
  /\ Len(chatIds) = 3
  /\ Len(Attempts(log)) = 2
  /\ Attempts(log)[2].what = "flood_wait"

\* C2: after an attempt has returned the rate-limited outcome, no attempt is
\* made, in this round or the next, before a timed suspension has elapsed.
C2_SuspendedAfterFlood ==
  LET events == prevLog \o log
  IN \A p \in 1..Len(events) : \A q \in (p + 1)..Len(events) :
       (events[p].ev = "attempt" /\ events[p].what = "flood_wait"
          /\ events[q].ev = "attempt")
         => \E m \in (p + 1)..(q - 1) : events[m].ev = "sleep"

\* C3: roundNumber is 1 when the first round starts, each later round starts
\* with the roundNumber of the round before plus 1, however that round ended,
\* and roundNumber does not change from a round's start to the end of its
\* for loop.
C3_RoundNumber ==
  [][ /\ (pc = "roundStart" /\ pc' # "roundStart")
          => /\ roundNumber' = roundNumber
             /\ log'[1].round = roundNumber
             /\ log'[1].round = IF log = <<>> THEN 1 ELSE log[1].round + 1
      /\ (pc \in {"attempt", "roundEnd"} \/ (pc = "sleep" /\ timer.kind = "interMessage"))
          => \/ roundNumber' = roundNumber
             \/ pc = "roundEnd" /\ roundStopped /\ roundNumber' = roundNumber + 1
      /\ roundNumber' \in {roundNumber, roundNumber + 1}
    ]_vars

\* C3 witness: the second round is running, the first having been stopped.
C3_Witness ==
  /\ pc = "attempt"
  /\ roundNumber = 2
  /\ log[1].round = 2
  /\ ReportsOf(prevLog, "ROUND PAUSED") # <<>>

\* C4: the cumulative counters never decrease and are never reset.
C4_TotalsMonotone ==
  [][ /\ totalSuccessCount' >= totalSuccessCount
      /\ totalFailCount' >= totalFailCount
      /\ totalFloodWaitCount' >= totalFloodWaitCount ]_vars

\* C4 witness: a second round begins with totals of every kind above 0.
C4_Witness ==
  /\ pc = "attempt"
  /\ roundNumber = 2
  /\ totalSuccessCount > 0
  /\ totalFailCount > 0
  /\ totalFloodWaitCount > 0

\* C5: the loop has no end: once it is entered, round follows round, paused
\* or completed, until the next round to start has passed every number the
\* model allows; the loop is never left, and the disconnect after it is
\* never reached.
C5_LoopsForever ==
  /\ (pc = "roundStart" /\ roundNumber = 1)
       ~> (pc = "roundStart" /\ roundNumber = MaxRounds + 1)
  /\ [](/\ pc # "disconnected"
        /\ log # <<>> => pc \in {"roundStart", "attempt", "sleep", "roundEnd"})

\* C5 witness: every round the model allows is over, paused ones among them,
\* and the next is about to start.
C5_Witness ==
  /\ pc = "roundStart"
  /\ roundNumber = MaxRounds + 1
  /\ roundStopped
  /\ totalSuccessCount > 0

\* C6: the loop runs only with at least one destination and a message text
\* that is not blank; a startup that fails makes no delivery attempt and
\* sends no audit message, reports each failed condition once, and takes no
\* further step.
C6_NoStartWithoutPreconditions ==
  /\ pc \notin {"start", "returned", "caught"}
       => Len(chatIds) >= 1 /\ Len(Trim(text)) > 0
  /\ pc \in {"returned", "caught"}
       => /\ log = <<>> /\ prevLog = <<>>
          /\ totalSuccessCount + totalFailCount + totalFloodWaitCount = 0
          /\ errors # <<>>
          /\ \A j, k \in 1..Len(errors) : errors[j] = errors[k] => j = k
          /\ errors[1] # "Missing required environment variables:" => Len(errors) = 1
          /\ ~ENABLED Next

\* C6 witness: TARGET_CHATS held no destination and sendTestMessage returned.
C6_Witness ==
  /\ pc = "returned"
  /\ errors = <<"No target chats found in TARGET_CHATS env variable">>

\* C7: a delivery returns true, false or 'flood_wait' and never raises; the
\* loop goes on after it; and after a delivery that returned false for a
\* destination that is not the last, the round goes on to the next one.
C7_FailureContained ==
  LET a == Attempts(log)
      n == Len(chatIds)
  IN /\ log # <<>> => pc \in {"roundStart", "attempt", "sleep", "roundEnd"}
     /\ \A k \in 1..Len(a) :
          /\ a[k].what \in {"true", "false", "flood_wait"}
          /\ (a[k].what = "false" /\ a[k].idx < n - 1)
               => \/ k < Len(a) /\ a[k + 1].idx = a[k].idx + 1
                  \/ pc = "sleep" /\ timer.kind = "interMessage" /\ i = a[k].idx
                  \/ pc = "attempt" /\ i = a[k].idx + 1

\* C7 witness: the first delivery failed and the second was attempted.
C7_Witness ==
  /\ Len(Attempts(log)) >= 2
  /\ Attempts(log)[1].what = "false"
  /\ Attempts(log)[2].idx = 1

\* C8: a failure of the audit channel never raises and leaves the loop's
\* counters, results, reports, delays and position exactly as they are when
\* every audit send succeeds.
C8_AuditFailureSwallowed ==
  /\ ideal = Ctl
  /\ auditFailed => pc \in {"roundStart", "attempt", "sleep", "roundEnd"}

\* C8 witness: the audit channel failed during a delivery that succeeded, and
\* the round counts the success and waits for the next destination.
C8_Witness ==
  /\ auditFailed
  /\ pc = "sleep" /\ timer.kind = "interMessage"
  /\ roundSuccessCount = 1 /\ totalSuccessCount = 1

IsDeliveryReport(e) == e.ev = "report" /\ e.what \in {"MESSAGE SENT", "SEND FAILED"}

\* C9: every call of sendMessageWithLogging issues exactly one report,
\* MESSAGE SENT or SEND FAILED, and these reports are issued nowhere else.
C9_OneReportPerDelivery ==
  \A k \in 1..Len(log) :
    /\ log[k].ev = "attempt"
         => /\ k + 1 <= Len(log) /\ IsDeliveryReport(log[k + 1])
            /\ k + 2 <= Len(log) => ~IsDeliveryReport(log[k + 2])
    /\ IsDeliveryReport(log[k]) => k > 1 /\ log[k - 1].ev = "attempt"

\* C9 witness: a round with a delivery of each result.
C9_Witness ==
  /\ \E k \in 1..Len(log) : log[k].ev = "attempt" /\ log[k].what = "true"
  /\ \E k \in 1..Len(log) : log[k].ev = "attempt" /\ log[k].what = "false"
  /\ \E k \in 1..Len(log) : log[k].ev = "attempt" /\ log[k].what = "flood_wait"

\* roundNumber++ has run for the round in log
RoundEnded == \E k \in 1..Len(log) : log[k].ev = "roundNumber++"

IsTerminalReport(e) == e.ev = "report" /\ e.what \in {"ROUND PAUSED", "ROUND COMPLETED"}

\* C10: a round issues at most one terminal report, after its last delivery;
\* a round that has ended has issued exactly one: ROUND PAUSED if one of its
\* attempts was rate-limited, ROUND COMPLETED if none was.
C10_OneTerminalReport ==
  LET paused == Len(ReportsOf(log, "ROUND PAUSED"))
      completed == Len(ReportsOf(log, "ROUND COMPLETED"))
      flooded == FloodPositions(Attempts(log)) # {}
  IN /\ paused + completed <= 1
     /\ \A j, k \in 1..Len(log) :
          (IsTerminalReport(log[j]) /\ log[k].ev = "attempt") => k < j
     /\ paused = 1 => flooded
     /\ completed = 1 => ~flooded
     /\ RoundEnded => paused + completed = 1

\* C10 witness: three destinations, the second rate-limited: the round has
\* ended with the report of a pause at 2/3.
C10_Witness ==
  /\ RoundEnded
  /\ Len(chatIds) = 3
  /\ \E k \in 1..Len(log) :
       /\ log[k].ev = "report" /\ log[k].what = "ROUND PAUSED"
       /\ log[k].idx = 2 /\ log[k].of = 3

\* how many of the attempts returned result
CountOf(attempts, result) == Len(SelectSeq(attempts, LAMBDA e : e.what = result))

\* C11: the report of a pause follows the report of a delivery that returned
\* 'flood_wait' for the destination at some index j of N; it carries the
\* progress j+1 of N, as successes the earlier deliveries of the round that
\* returned true and as failures those that returned false; the two add up to
\* j, so the delivery at j is in neither.
C11_PauseReportProgress ==
  \A k \in 1..Len(log) :
    (log[k].ev = "report" /\ log[k].what = "ROUND PAUSED")
      => /\ k >= 3
         /\ log[k - 2].ev = "attempt" /\ log[k - 2].what = "flood_wait"
         /\ LET j == log[k - 2].idx
                before == Attempts(SubSeq(log, 1, k - 3))
            IN /\ log[k].idx = j + 1
               /\ log[k].of = Len(chatIds)
               /\ log[k].succ = CountOf(before, "true")
               /\ log[k].fail = CountOf(before, "false")
               /\ log[k].succ + log[k].fail = j

\* C11 witness: the third of three deliveries is refused after one success
\* and one failure: the pause is reported at 3/3 with 1 and 1.
C11_Witness ==
  \E k \in 1..Len(log) :
    /\ log[k].ev = "report" /\ log[k].what = "ROUND PAUSED"
    /\ log[k].idx = 3 /\ log[k].of = 3
    /\ log[k].succ = 1 /\ log[k].fail = 1

C13_FirstMatchWins ==
  /\ [](pc \in {"analyzed", "analyzedAgain"} =>
         LET present == Present(error.message)
             first == IF present = {} THEN 0
                      ELSE CHOOSE k \in present : \A m \in present : k <= m
             class == <<"RateLimited", "TransientSkip", "PermanentSkip",
                        "PermanentSkip", "TransientSkip", "PermanentSkip">>
         IN /\ KindOf(errorInfo) = first
            /\ ClassOf(errorInfo) = IF first = 0 THEN "Unknown" ELSE class[first])
  /\ [][pc = "analyzed" => errorInfo' = errorInfo]_vars

\* C13 witness: a text with 'private' before 'banned' before 'write access'
\* has been classified twice, as a refusal for lack of rights.
C13_Witness ==
  /\ pc = "analyzedAgain"
  /\ error.message = <<"private", "banned", "write access">>
  /\ ClassOf(errorInfo) = "TransientSkip"
  /\ KindOf(errorInfo) = 2

\* C14: for a text with 'FLOOD_WAIT' or 'Too Many Requests' in it waitTime is
\* the value of the first run of digits of the text, wherever it stands, and
\* 300 if the text has no digit; for every other text waitTime is 0.
C14_WaitValue ==
  pc \in {"analyzed", "analyzedAgain"} =>
    LET t == error.message
        rate == Includes(t, "FLOOD_WAIT") \/ Includes(t, "Too Many Requests")
        digits == {k \in 1..Len(t) : t[k] \in Digits}
        p == CHOOSE k \in digits : \A m \in digits : k <= m
        q == CHOOSE k \in p..Len(t) :
               /\ \A j \in p..k : t[j] \in Digits
               /\ k = Len(t) \/ t[k + 1] \notin Digits
    IN IF ~rate THEN errorInfo.waitTime = 0
       ELSE IF digits = {} THEN errorInfo.waitTime = 300
       ELSE errorInfo.waitTime = DigitsValue(SubSeq(t, p, q), 0)

\* C14 witness: '42: FLOOD_WAIT_7' has been classified with a wait of 42.
C14_Witness ==
  /\ pc = "analyzed"
  /\ error.message = <<"4", "2", ":", " ", "FLOOD_WAIT", "_", "7">>
  /\ errorInfo.waitTime = 42

\* C15: a delivery whose error analyzeError answers with the rate-limit
\* result, whatever its waitTime, returns 'flood_wait', and the round it
\* belongs to is stopped at it.
C15_RateLimitedPauses ==
  (delivery.caught /\ ClassOf(delivery.errorInfo) = "RateLimited")
    => /\ delivery.result = "flood_wait"
       /\ delivery.round = roundNumber => roundStopped /\ pc = "roundEnd"

\* the three totals, and the three counters of the round
Totals == <<totalSuccessCount, totalFailCount, totalFloodWaitCount>>
RoundCounts == <<roundSuccessCount, roundFailCount, roundFloodWaitCount>>

\* one more in the column of the result, nothing in the others
PlusOne(counts, result) ==
  CASE result = "true" -> <<counts[1] + 1, counts[2], counts[3]>>
    [] result = "false" -> <<counts[1], counts[2] + 1, counts[3]>>
    [] result = "flood_wait" -> <<counts[1], counts[2], counts[3] + 1>>

\* C16: a delivery adds one to the round's counter and to the total of its
\* result, true, false or 'flood_wait', and leaves the other four as they
\* are; no other step changes a total, and a round counter changes otherwise
\* only when a round starts; so the three totals add up to the number of
\* deliveries made, and a round whose N deliveries all returned true has
\* added N, 0 and 0 to the totals it started with.
C16_OneCounterPerAttempt ==
  /\ [](/\ totalSuccessCount + totalFailCount + totalFloodWaitCount = calls
        /\ log # <<>> =>
             LET a == Attempts(log)
                 t == log[1].totals
                 n == Len(chatIds)
             IN /\ RoundCounts = <<CountOf(a, "true"), CountOf(a, "false"),
                                    CountOf(a, "flood_wait")>>
                /\ CountOf(a, "true") = n => Totals = <<t[1] + n, t[2], t[3]>>)
  /\ [][ IF calls' = calls + 1
         THEN LET a == Attempts(log')
                  result == a[Len(a)].what
              IN /\ Totals' = PlusOne(Totals, result)
                 /\ RoundCounts' = PlusOne(RoundCounts, result)
         ELSE /\ Totals' = Totals
              /\ \/ RoundCounts' = RoundCounts
                 \/ pc = "roundStart" /\ RoundCounts' = <<0, 0, 0>> ]_vars

\* C16 witness: after a first round with a failure and a refusal the second
\* round has delivered to all three destinations: the totals are 3, 1 and 1
\* after five deliveries.
C16_Witness ==
  /\ pc = "sleep" /\ timer.kind = "interRound"
  /\ roundNumber = 2
  /\ Len(chatIds) = 3
  /\ RoundCounts = <<3, 0, 0>>
  /\ log[1].totals = <<0, 1, 1>>
  /\ Totals = <<3, 1, 1>>
  /\ calls = 5

\* the last call of sendMessageWithLogging belongs to the round in log
InThisRound == log # <<>> /\ delivery.round = log[1].round

\* C17 as stated: a delivery whose getEntity fails calls no sendMessage,
\* returns false with the result 'Unknown error', and does not stop the
\* round, whatever the text of the error.
C17_ResolutionFailureUnknown ==
  (delivery.getEntity = "throws" /\ InThisRound)
    => /\ ~delivery.sendCalled
       /\ delivery.result = "false"
       /\ ClassOf(delivery.errorInfo) = "Unknown"
       /\ ~roundStopped

\* C17, amended: a delivery whose getEntity fails calls no sendMessage, is
\* the only call for its destination in the round, and issues one SEND
\* FAILED report; it returns 'flood_wait' if analyzeError gives the error a
\* waitTime above 0, and the round is stopped and reported as paused; it
\* returns false otherwise, and the round goes on to the next destination,
\* or to its end after the last.
C17_ResolutionFailure ==
  (delivery.getEntity = "throws" /\ InThisRound)
    => LET a == Attempts(log)
           own == FromLastAttempt(log)
           n == Len(chatIds)
       IN /\ ~delivery.sendCalled
          /\ delivery.caught
          /\ a[Len(a)].idx = delivery.idx /\ a[Len(a)].what = delivery.result
          /\ \A m \in 1..(Len(a) - 1) : a[m].idx # delivery.idx
          /\ Len(ReportsOf(own, "SEND FAILED")) = 1
          /\ ReportsOf(own, "MESSAGE SENT") = <<>>
          /\ delivery.result
               = IF delivery.errorInfo.waitTime > 0 THEN "flood_wait" ELSE "false"
          /\ delivery.result = "flood_wait"
               => roundStopped /\ Len(ReportsOf(own, "ROUND PAUSED")) = 1
          /\ delivery.result = "false"
               => /\ ~roundStopped
                  /\ ReportsOf(own, "ROUND PAUSED") = <<>>
                  /\ IF delivery.idx < n - 1
                     THEN \/ pc = "sleep" /\ timer.kind = "interMessage"
                                           /\ i = delivery.idx
                          \/ pc = "attempt" /\ i = delivery.idx + 1
                     ELSE RoundOver

\* C17 witness: getEntity failed for the first destination with the text of
\* a ban; the call returned false and the second destination is next.
C17_Witness ==
  /\ delivery.getEntity = "throws"
  /\ delivery.idx = 0
  /\ delivery.result = "false"
  /\ ClassOf(delivery.errorInfo) = "PermanentSkip"
  /\ pc = "attempt" /\ i = 1

\* C18: after a delivery has returned false, a further delivery to the same
\* destination is made only in a later round, and is never made if the
\* failure had the result 'Skip this chat permanently'.
C18_PermanentSkipNotRetried ==
  [][ (calls' = calls + 1 /\ delivery.caught /\ delivery.result = "false"
         /\ i = delivery.idx)
        => /\ delivery.round < roundNumber
           /\ ClassOf(delivery.errorInfo) # "PermanentSkip" ]_vars

\* C19: in a round's log exactly one delay stands between two deliveries
\* that follow each other, it is the delay between messages, of
\* intervalSeconds * 1000 ms, and the delivery before it returned true or
\* false for a destination that is not the last; no delay between messages
\* follows a delivery that returned 'flood_wait' or the delivery to the last
\* destination, or stands before the first; a round over N destinations
\* without 'flood_wait' has N-1 of them.
C19_InterMessageDelays ==
  LET n == Len(chatIds)
      at == {k \in 1..Len(log) : log[k].ev = "attempt"}
      sleeps == {k \in 1..Len(log) : log[k].ev = "sleep"}
      between == {k \in sleeps : log[k].what = "interMessage"}
  IN /\ \A k \in between :
          /\ log[k].ms = Millis(intervalSeconds)
          /\ \E p \in at : p < k
     /\ \A p, q \in at :
          (p < q /\ ~\E m \in at : p < m /\ m < q)
            => /\ Cardinality({k \in sleeps : p < k /\ k < q}) = 1
               /\ Cardinality({k \in between : p < k /\ k < q}) = 1
               /\ log[p].what \in {"true", "false"}
               /\ log[p].idx < n - 1
     /\ \A p \in at :
          (\A m \in at : m <= p)
            => IF log[p].what = "flood_wait" \/ log[p].idx = n - 1
               THEN {k \in between : p < k} = {}
               ELSE \/ Cardinality({k \in between : p < k}) = 1
                    \/ /\ {k \in between : p < k} = {}
                       /\ pc = "sleep"
                       /\ timer = [kind |-> "interMessage",
                                   ms |-> Millis(intervalSeconds)]
     /\ (RoundOver /\ FloodPositions(Attempts(log)) = {})
          => Cardinality(between) = n - 1

\* C19 witness: a round over three destinations, the second of which
\* failed, is over with two delays between messages.
C19_Witness ==
  /\ RoundOver
  /\ Len(chatIds) = 3
  /\ Len(Attempts(log)) = 3
  /\ Attempts(log)[2].what = "false"
  /\ Len(SelectSeq(log, LAMBDA e : e.ev = "sleep" /\ e.what = "interMessage")) = 2

\* the round before was stopped at the destination with this index
PausedAt(k) ==
  \E m \in 1..Len(prevLog) :
    /\ prevLog[m].ev = "report" /\ prevLog[m].what = "ROUND PAUSED"
    /\ prevLog[m].idx = k + 1

\* the round in log has called sendMessageWithLogging for chatIds[j]
AttemptedNow(j) == \E m \in 1..Len(log) : log[m].ev = "attempt" /\ log[m].idx = j

\* C20 as stated: every round begins with the destination at index 0, and
\* the round after a round stopped at index k calls sendMessageWithLogging
\* for each of the destinations k+1..N-1.
C20_UnattemptedRetriedNextRound ==
  /\ (pc = "attempt" /\ Len(log) = 1) => i = 0
  /\ Attempts(log) # <<>> => Attempts(log)[1].idx = 0
  /\ \A k \in 0..(Len(chatIds) - 1) :
       (RoundOver /\ PausedAt(k))
         => \A j \in (k + 1)..(Len(chatIds) - 1) : AttemptedNow(j)

\* C20, amended: every round begins with the destination at index 0,
\* wherever the round before was stopped, and the round after a round stopped
\* at index k calls sendMessageWithLogging for each of the destinations
\* k+1..N-1 that it reaches: all of them, unless a call for an earlier
\* destination returns 'flood_wait' in this round too.
C20_RestartFromZero ==
  /\ (pc = "attempt" /\ Len(log) = 1) => i = 0
  /\ Attempts(log) # <<>> => Attempts(log)[1].idx = 0
  /\ \A k \in 0..(Len(chatIds) - 1) :
       (RoundOver /\ PausedAt(k))
         => \A j \in (k + 1)..(Len(chatIds) - 1) :
              AttemptedNow(j)
                <=> ~\E m \in 1..Len(log) :
                       /\ log[m].ev = "attempt" /\ log[m].what = "flood_wait"
                       /\ log[m].idx < j

\* C20 witness: the round before was stopped at the first of three
\* destinations; this round began at the first again and has been through
\* all three.
C20_Witness ==
  /\ RoundOver
  /\ PausedAt(0)
  /\ Len(chatIds) = 3
  /\ Attempts(log)[1].idx = 0
  /\ AttemptedNow(1) /\ AttemptedNow(2)

\* C21: a round begins with one NEW ROUND STARTED report, the first event of
\* the round and the only report of its kind in it, which carries
\* roundNumber, the number of destinations and the three totals as the round
\* before left them, 0, 0 and 0 in round 1 and those of the ROUND COMPLETED
\* report after a round that ran to its end; the totals are not changed by
\* the step, and the round's counters are 0 and roundStopped is false after
\* it.
C21_RoundStartedReport ==
  /\ [](log # <<>> =>
         /\ log[1].ev = "report" /\ log[1].what = "NEW ROUND STARTED"
         /\ Len(ReportsOf(log, "NEW ROUND STARTED")) = 1
         /\ log[1].of = Len(chatIds)
         /\ log[1].round = 1 => log[1].totals = <<0, 0, 0>>)
  /\ [][ (pc = "roundStart" /\ pc' # "roundStart")
           => /\ Len(log') = 1
              /\ log'[1].round = roundNumber
              /\ log'[1].of = Len(chatIds)
              /\ log'[1].totals = Totals
              /\ \A k \in 1..Len(log) :
                   (log[k].ev = "report" /\ log[k].what = "ROUND COMPLETED")
                     => log'[1].totals = log[k].totals
              /\ Totals' = Totals
              /\ RoundCounts' = <<0, 0, 0>>
              /\ roundStopped' = FALSE
              /\ pc' = "attempt" /\ i' = 0 ]_vars

\* C21 witness: the second round has just begun after a first round that
\* ran to its end with two deliveries and one failure; its report carries
\* round 2, three destinations and the totals 2, 1 and 0.
C21_Witness ==
  /\ pc = "attempt"
  /\ log = <<[Report("NEW ROUND STARTED") EXCEPT
                !.round = 2, !.of = 3, !.totals = <<2, 1, 0>>]>>
  /\ ReportsOf(prevLog, "ROUND COMPLETED") # <<>>
  /\ RoundCounts = <<0, 0, 0>> /\ ~roundStopped

\* the events of a round that ran to its end, from its last delivery on:
\* the attempt for the last destination, its report, ROUND COMPLETED, one
\* delay of the interval, roundNumber++
CompletedExit(events, r) ==
  /\ Len(events) = 5
  /\ events[1].ev = "attempt" /\ events[1].what \in {"true", "false"}
  /\ events[1].idx = Len(chatIds) - 1
  /\ IsDeliveryReport(events[2])
  /\ events[3].ev = "report" /\ events[3].what = "ROUND COMPLETED"
  /\ events[3].round = r
  /\ events[4] = SleepEvent([kind |-> "interRound", ms |-> Millis(intervalSeconds)])
  /\ events[5] = IncrementEvent(r + 1)

\* the events of a stopped round, from its last delivery on: the
\* rate-limited attempt, its report, ROUND PAUSED, roundNumber++
PausedExit(events, r) ==
  /\ Len(events) = 4
  /\ events[1].ev = "attempt" /\ events[1].what = "flood_wait"
  /\ events[2].ev = "report" /\ events[2].what = "SEND FAILED"
  /\ events[3].ev = "report" /\ events[3].what = "ROUND PAUSED"
  /\ events[3].round = r
  /\ events[4] = IncrementEvent(r + 1)

\* C22: a round that was not stopped ends with its last delivery, the
\* ROUND COMPLETED report with the round's counters and the totals, one
\* delay of intervalSeconds, roundNumber++ and then the NEW ROUND STARTED
\* report of the next round, in this order; a stopped round ends with ROUND
\* PAUSED, roundNumber++ and the next NEW ROUND STARTED report with no delay
\* between them.
C22_RoundExitOrder ==
  /\ [](/\ RoundEnded =>
            /\ pc = "roundStart"
            /\ IF roundStopped
               THEN PausedExit(FromLastAttempt(log), roundNumber - 1)
               ELSE /\ CompletedExit(FromLastAttempt(log), roundNumber - 1)
                    /\ FromLastAttempt(log)[3].succ = roundSuccessCount
                    /\ FromLastAttempt(log)[3].fail = roundFailCount
                    /\ FromLastAttempt(log)[3].totals = Totals
        /\ (pc = "sleep" /\ timer.kind # "interMessage") =>
            /\ ~roundStopped
            /\ timer = [kind |-> "interRound", ms |-> Millis(intervalSeconds)]
            /\ log[Len(log)].ev = "report"
            /\ log[Len(log)].what = "ROUND COMPLETED")
  /\ [][ /\ roundNumber' # roundNumber =>
            /\ roundNumber' = roundNumber + 1
            /\ log'[Len(log')] = IncrementEvent(roundNumber')
            /\ pc' = "roundStart"
         /\ (pc = "roundStart" /\ pc' # "roundStart" /\ log # <<>>) =>
            /\ RoundEnded
            /\ prevLog' = FromLastAttempt(log)
            /\ Len(log') = 1
            /\ log'[1].ev = "report" /\ log'[1].what = "NEW ROUND STARTED"
            /\ log'[1].round = roundNumber ]_vars

\* C22 witness: round 1 ran to its end and round 2, begun after one delay of
\* the interval, was stopped at its second destination and is over.
C22_Witness ==
  /\ pc = "roundStart" /\ roundNumber = 3 /\ roundStopped
  /\ CompletedExit(prevLog, 1)
  /\ log[1].what = "NEW ROUND STARTED" /\ log[1].round = 2
  /\ PausedExit(FromLastAttempt(log), 2)
  /\ Len(Attempts(log)) = 2

\* C23: the interval the dispatch loop works with is a defined integer that
\* is at least 0: the number of BULK_INTERVAL_SECONDS if that is one, and 90
\* if the setting is unset or is not a number.
C23_IntervalIsDefinedInteger ==
  pc \in {"roundStart", "attempt", "sleep", "roundEnd"} =>
    /\ ~intervalSeconds.nan
    /\ intervalSeconds.n >= 0
    /\ pc = "sleep" => ~timer.ms.nan

\* C24: the round's rate-limit counter is 0 or 1 and is 1 exactly when
\* roundStopped is true, so the test 'roundFloodWaitCount > 0 and not
\* roundStopped' after the round is false and the delay of 300 seconds is
\* never started and never fires.
C24_RateLimitCountIsStoppedFlag ==
  /\ roundFloodWaitCount \in {0, 1}
  /\ roundFloodWaitCount = 1 <=> roundStopped
  /\ ~(roundFloodWaitCount > 0 /\ ~roundStopped)
  /\ timer.kind # "extraCooldown"
  /\ \A k \in 1..Len(log) :
       ~(log[k].ev = "sleep" /\ log[k].what = "extraCooldown")
  /\ \A k \in 1..Len(prevLog) :
       ~(prevLog[k].ev = "sleep" /\ prevLog[k].what = "extraCooldown")

\* C24 witness: a round was stopped by a rate limit at its second
\* destination, its counter is 1, and the code after the round has run and
\* gone back to the head of the while loop.
C24_Witness ==
  /\ pc = "roundStart" /\ RoundEnded
  /\ roundStopped /\ roundFloodWaitCount = 1
  /\ CountOf(Attempts(log), "flood_wait") = 1
  /\ Len(Attempts(log)) = 2
  /\ roundNumber = 2

\* the transport's sendMessage of the last call resolved: the message went
\* out, whatever the promise resolved to
SendMessageResolved(d) == d.sendMessage \in {"message", "undefined"}

\* C25: a call of sendMessageWithLogging whose sendMessage resolved returns
\* true and issues the MESSAGE SENT report, and the round counts it as a
\* success: it is not caught, not reported as SEND FAILED and adds nothing
\* to the round's failures or rate limits, whatever happens in the call
\* after sendMessage.
C25_DeliveredIsSent ==
  /\ []((InThisRound /\ SendMessageResolved(delivery)) =>
         /\ delivery.result = "true"
         /\ ~delivery.caught
         /\ FromLastAttempt(log)[1].what = "true"
         /\ FromLastAttempt(log)[2].ev = "report"
         /\ FromLastAttempt(log)[2].what = "MESSAGE SENT")
  /\ [][ (calls' # calls /\ client /\ SendMessageResolved(delivery')) =>
           /\ roundSuccessCount' = roundSuccessCount + 1
           /\ roundFailCount' = roundFailCount
           /\ roundFloodWaitCount' = roundFloodWaitCount ]_vars
====
